---------------------------- MODULE Spec2Model ----------------------------
(***************************************************************************)
(* State-space construction engine for finite-domain (SAS) planning        *)
(* problems: the problem model (src/src/parser/models.py), the parser      *)
(* (src/src/parser/core.py) and the graph builder                          *)
(* (src/src/graph/builder.py).                                             *)
(*                                                                         *)
(* Conventions.  A Python tuple or list is a TLA+ sequence; Python's       *)
(* 0-based index i is the TLA+ index i + 1.  A state is a sequence of      *)
(* integers, one per variable.  An operator is a record                    *)
(*   [name, cost, preconditions, effects]                                  *)
(* where preconditions is a sequence of pairs <<var_id, val>> and effects  *)
(* a sequence of triples <<var_id, val, conditions>>, conditions being a   *)
(* sequence of pairs <<var_id, val>>.                                      *)
(***************************************************************************)
EXTENDS Integers, Sequences, FiniteSets, TLC

VARIABLES
    \* ---- StateSpaceBuilder (src/src/graph/builder.py) ----
    problem,        \* self.problem: [ranges, initial_state, operators]
    pc,             \* position of the caller / of the running method
    queue,          \* build_reachable_graph: deque of states
    visited,        \* build_reachable_graph: set of states
    graph,          \* the nx.DiGraph under construction by the running method
    current_state,  \* build_reachable_graph: the state popped last
    popped,         \* history: the states queue.popleft() gave in this call
    idx,            \* build_cartesian_graph: position of step 3 in all_states
    all_states,     \* build_cartesian_graph: list(itertools.product(...))
    max_states,     \* build_cartesian_graph: its parameter
    graphA,         \* the caller's graph from build_reachable_graph, if any
    graphB,         \* the caller's graph from build_cartesian_graph, if any
    ret,            \* how the last call ended: [method, arg, raised, graph]
    \* ---- SASParser (src/src/parser/core.py) ----
    p_lines,        \* content.strip().splitlines()
    p_pos,          \* number of lines the iterator self.lines has yielded
    p_problem,      \* the locals of parse: version, metric, variables, ...
    p_status,       \* "running", "returned", "ValueError", "IndexError"
    p_msg,          \* the token an error message names
    p_sect,         \* the section the last loop iteration dispatched to
    \* ---- SASOperator called on its own (src/src/parser/models.py) ----
    m_op,           \* the operator
    m_state,        \* the state passed in
    m_pc,           \* "start", "tested", "applied"
    m_applicable,   \* result of is_applicable
    m_next          \* result of apply

bvars == <<problem, pc, queue, visited, graph, current_state, popped, idx, all_states,
           max_states, graphA, graphB, ret>>
pvars == <<p_lines, p_pos, p_problem, p_status, p_msg, p_sect>>
mvars == <<m_op, m_state, m_pc, m_applicable, m_next>>
vars == <<bvars, pvars, mvars>>

-----------------------------------------------------------------------------
(* Bounds of the model *)

\* largest number of operators of a problem given to the builder
MaxOps == 2
\* largest number of effects of an operator applied on its own
MaxEffects == 2

\* default of build_cartesian_graph's max_states parameter
DefaultMaxStates == 100000
\* the "don't care" pre-value of an effect line
DontCare == -1

-----------------------------------------------------------------------------
(* SASOperator: src/src/parser/models.py *)

\* for var_id, val in self.preconditions: if state[var_id] != val: return False
RECURSIVE PrecondLoop(_, _, _)
PrecondLoop(preconditions, i, state) ==
    IF i > Len(preconditions) THEN TRUE
    ELSE IF state[preconditions[i][1] + 1] # preconditions[i][2] THEN FALSE
    ELSE PrecondLoop(preconditions, i + 1, state)

is_applicable(op, state) == PrecondLoop(op.preconditions, 1, state)

\* the inner loop of apply: trigger stays True unless a condition fails
RECURSIVE Trigger(_, _, _)
Trigger(conditions, i, state) ==
    IF i > Len(conditions) THEN TRUE
    ELSE IF state[conditions[i][1] + 1] # conditions[i][2] THEN FALSE
    ELSE Trigger(conditions, i + 1, state)

\* a bug apply could have: an effect's conditions tested on the state as
\* updated so far
RECURSIVE EffectLoopOnUpdated(_, _, _, _)
EffectLoopOnUpdated(effects, i, state, new_state) ==
    IF i > Len(effects) THEN new_state
    ELSE EffectLoopOnUpdated(effects, i + 1, state,
                        IF Trigger(effects[i][3], 1, new_state)
                        THEN [new_state EXCEPT ![effects[i][1] + 1] = effects[i][2]]
                        ELSE new_state)

\* a bug apply could have: the break of the condition loop leaving the loop
\* over the effects, too
RECURSIVE EffectLoopBreaksOut(_, _, _, _)
EffectLoopBreaksOut(effects, i, state, new_state) ==
    IF i > Len(effects) THEN new_state
    ELSE IF ~Trigger(effects[i][3], 1, state) THEN new_state
    ELSE EffectLoopBreaksOut(effects, i + 1, state,
                             [new_state EXCEPT ![effects[i][1] + 1] = effects[i][2]])

\* the outer loop of apply: conditions are tested on state, writes go to new_state
RECURSIVE EffectLoop(_, _, _, _)
EffectLoop(effects, i, state, new_state) ==
    IF i > Len(effects) THEN new_state
    ELSE LET var_id == effects[i][1]
             new_val == effects[i][2]
             conditions == effects[i][3]
         IN  EffectLoop(effects, i + 1, state,
                        IF Trigger(conditions, 1, state)
                        THEN [new_state EXCEPT ![var_id + 1] = new_val]
                        ELSE new_state)

apply(op, state) == EffectLoop(op.effects, 1, state, state)

-----------------------------------------------------------------------------
(* nx.DiGraph as used by the builder: a node set and, per ordered pair of    *)
(* nodes, at most one edge carrying weight and label.                        *)

EmptyGraph == [nodes |-> {}, edges |-> [e \in {} |-> 0]]

has_edge(g, u, v) == <<u, v>> \in DOMAIN g.edges

add_node(g, n) == [g EXCEPT !.nodes = @ \cup {n}]

\* add_edge adds both endpoints and sets (overwrites) the edge's attributes
add_edge(g, u, v, weight, label) ==
    [nodes |-> g.nodes \cup {u, v},
     edges |-> [e \in DOMAIN g.edges \cup {<<u, v>>} |->
                    IF e = <<u, v>> THEN [weight |-> weight, label |-> label]
                    ELSE g.edges[e]]]

\* a bug add_or_update_edge could have: the edge is overwritten whatever its weight
add_or_update_edge_overwrite(g, u, v, op) == add_edge(g, u, v, op.cost, op.name)

\* a bug the merge could have: "<=" for "<", so that a later operator of
\* equal cost takes the label
add_or_update_edge_ties(g, u, v, op) ==
    IF has_edge(g, u, v)
    THEN IF op.cost <= g.edges[<<u, v>>].weight
         THEN add_edge(g, u, v, op.cost, op.name)
         ELSE g
    ELSE add_edge(g, u, v, op.cost, op.name)

add_or_update_edge(g, u, v, op) ==
    IF has_edge(g, u, v)
    THEN IF op.cost < g.edges[<<u, v>>].weight
         THEN add_edge(g, u, v, op.cost, op.name)
         ELSE g
    ELSE add_edge(g, u, v, op.cost, op.name)

-----------------------------------------------------------------------------
(* StateSpaceBuilder: src/src/graph/builder.py *)

\* itertools.product(*var_ranges): tuples in lexicographic order, the last
\* variable varying fastest; the product of no ranges is the one empty tuple
RECURSIVE Prepend(_, _, _)
Prepend(x, tuples, i) ==
    IF i > Len(tuples) THEN <<>>
    ELSE <<(<<x>> \o tuples[i])>> \o Prepend(x, tuples, i + 1)

\* a bug the enumeration could have: range(v.range_size - 1), the last value
\* of every variable left out
RECURSIVE ProductShort(_)
RECURSIVE ProductShortFrom(_, _, _)
ProductShortFrom(x, n, rest) ==
    IF x >= n - 1 THEN <<>>
    ELSE Prepend(x, rest, 1) \o ProductShortFrom(x + 1, n, rest)

ProductShort(ranges) ==
    IF ranges = <<>> THEN << <<>> >>
    ELSE ProductShortFrom(0, Head(ranges), ProductShort(Tail(ranges)))

RECURSIVE Product(_)
RECURSIVE ProductFrom(_, _, _)
ProductFrom(x, n, rest) ==
    IF x >= n THEN <<>>
    ELSE Prepend(x, rest, 1) \o ProductFrom(x + 1, n, rest)

Product(ranges) ==
    IF ranges = <<>> THEN << <<>> >>
    ELSE ProductFrom(0, Head(ranges), Product(Tail(ranges)))

Range(seq) == {seq[i] : i \in 1..Len(seq)}

Max(seq) == CHOOSE x \in Range(seq) : \A y \in Range(seq) : y <= x

\* a bug the loop could have: "is the successor new" asked of the graph, which
\* the edge just added has already given the successor
RECURSIVE ReachableOpsAsksGraph(_, _, _, _)
ReachableOpsAsksGraph(ops, i, u, st) ==
    IF i > Len(ops) THEN st
    ELSE IF ~is_applicable(ops[i], u)
    THEN ReachableOpsAsksGraph(ops, i + 1, u, st)
    ELSE LET next_state == apply(ops[i], u)
             g == add_or_update_edge(st[1], u, next_state, ops[i])
         IN  ReachableOpsAsksGraph(ops, i + 1, u,
                 IF next_state \notin g.nodes
                 THEN <<add_node(g, next_state), st[2] \cup {next_state},
                        Append(st[3], next_state)>>
                 ELSE <<g, st[2], st[3]>>)

\* a bug the loop could have: the successor looked up in the frontier, not in
\* the visited set
RECURSIVE ReachableOpsAsksQueue(_, _, _, _)
ReachableOpsAsksQueue(ops, i, u, st) ==
    IF i > Len(ops) THEN st
    ELSE IF ~is_applicable(ops[i], u)
    THEN ReachableOpsAsksQueue(ops, i + 1, u, st)
    ELSE LET next_state == apply(ops[i], u)
             g == add_or_update_edge(st[1], u, next_state, ops[i])
         IN  ReachableOpsAsksQueue(ops, i + 1, u,
                 IF next_state \notin Range(st[3])
                 THEN <<add_node(g, next_state), st[2] \cup {next_state},
                        Append(st[3], next_state)>>
                 ELSE <<g, st[2], st[3]>>)

\* the for loop over self.problem.operators in build_reachable_graph, from
\* operator i on, for current_state u: st is <<graph, visited, queue>>
RECURSIVE ReachableOps(_, _, _, _)
ReachableOps(ops, i, u, st) ==
    IF i > Len(ops) THEN st
    ELSE IF ~is_applicable(ops[i], u)
    THEN ReachableOps(ops, i + 1, u, st)
    ELSE LET next_state == apply(ops[i], u)
             g == add_or_update_edge(st[1], u, next_state, ops[i])
         IN  ReachableOps(ops, i + 1, u,
                 IF next_state \notin st[2]
                 THEN <<add_node(g, next_state), st[2] \cup {next_state},
                        Append(st[3], next_state)>>
                 ELSE <<g, st[2], st[3]>>)

\* the inner for loop of step 3 of build_cartesian_graph, from operator i on
RECURSIVE CartesianOps(_, _, _, _)
CartesianOps(ops, i, state, g) ==
    IF i > Len(ops) THEN g
    ELSE CartesianOps(ops, i + 1, state,
             IF is_applicable(ops[i], state)
             THEN add_or_update_edge(g, state, apply(ops[i], state), ops[i])
             ELSE g)

\* nx.weakly_connected_components: the nodes joined to n by edges taken in
\* either direction
RECURSIVE Grow(_, _)
Grow(g, S) ==
    LET T == S \cup {n \in g.nodes : \E m \in S :
                         has_edge(g, m, n) \/ has_edge(g, n, m)}
    IN  IF T = S THEN S ELSE Grow(g, T)

weakly_connected_components(g) == {Grow(g, {n}) : n \in g.nodes}

\* graph.subgraph(component).copy()
subgraph(g, component) ==
    [nodes |-> g.nodes \cap component,
     edges |-> [e \in {d \in DOMAIN g.edges :
                          d[1] \in component /\ d[2] \in component} |-> g.edges[e]]]

-----------------------------------------------------------------------------
(* The problems handed to the builder *)

\* domain sizes of the problem's variables
RangeChoices == {<<2>>, <<3>>, <<2, 2>>}
\* operator costs where operators compete for an edge (the costs of the merge
\* example of the specification)
Costs == {3, 5}
\* values given to max_states: a small cap, and the default
MaxStatesChoices == {3, DefaultMaxStates}

SeqsUpTo(S, n) == UNION {[1..k -> S] : k \in 0..n}

\* the pairs (var_id, value) over the variables of ranges
Pairs(ranges) ==
    {q \in (0..(Len(ranges) - 1)) \X (0..(Max(ranges) - 1)) : q[2] < ranges[q[1] + 1]}

\* operators are named by their place in the declaration order
Named(ops) == [i \in 1..Len(ops) |-> [ops[i] EXCEPT !.name = "op" \o ToString(i)]]

\* the first state of the product: every variable at value 0.  UnitOps is
\* closed under renaming the values of a variable, so every problem over it is
\* one of these up to such a renaming.
ZeroState(ranges) == Product(ranges)[1]

\* unit-cost operators with one unguarded effect and at most one precondition,
\* on any variable; a precondition on the effect's own variable asks for
\* another value than the one the effect sets
UnitOps(ranges) ==
    {[name |-> "", cost |-> 1, preconditions |-> pe[1],
      effects |-> << <<pe[2][1], pe[2][2], <<>> >> >>] :
        pe \in {x \in SeqsUpTo(Pairs(ranges), 1) \X Pairs(ranges) :
                   x[1] # << x[2] >>}}

Problems ==
    UNION {{[ranges |-> r, initial_state |-> ZeroState(r), operators |-> Named(ops)] :
              ops \in SeqsUpTo(UnitOps(r), MaxOps)} : r \in RangeChoices}

\* the effect lines "0 var pre post" over the variables of ranges
EffectLines(ranges) ==
    {t \in (0..(Len(ranges) - 1)) \X (DontCare..(Max(ranges) - 1))
            \X (0..(Max(ranges) - 1)) :
        t[2] < ranges[t[1] + 1] /\ t[3] < ranges[t[1] + 1]}

\* the operator an operator block with no prevail line and the one effect
\* line t yields: one unguarded effect, and a precondition on its variable
\* unless pre is the don't-care value
OpOfLine(t, c) ==
    [name |-> "", cost |-> c,
     preconditions |-> IF t[2] = DontCare THEN <<>> ELSE << <<t[1], t[2]>> >>,
     effects |-> << <<t[1], t[3], <<>> >> >>]

\* the effect lines the operators of a cost problem come from: all of them
\* over one variable of two values; over one of three values those that leave
\* value 0, from value 0 or from any value
CostLines(ranges) ==
    IF ranges = <<2>> THEN EffectLines(ranges)
    ELSE {t \in EffectLines(ranges) : t[2] \in {DontCare, 0} /\ t[3] # 0}

\* problems whose operators compete for edges at different costs
CostProblems ==
    UNION {{[ranges |-> r, initial_state |-> ZeroState(r), operators |-> Named(ops)] :
              ops \in SeqsUpTo({OpOfLine(t, c) : t \in CostLines(r), c \in Costs},
                               MaxOps)} : r \in {<<2>>, <<3>>}}

\* no call has ended yet, or one is running
NoReturn == [method |-> "none", arg |-> "none", raised |-> "none", graph |-> EmptyGraph]

\* the locals of the builder's methods, outside a call
NoLocals ==
    /\ queue = <<>>
    /\ visited = {}
    /\ graph = EmptyGraph
    /\ current_state = <<>>
    /\ popped = <<>>
    /\ idx = 0
    /\ all_states = <<>>
    /\ max_states = 0

\* a call ends: its locals are gone
ClearLocals ==
    /\ queue' = <<>>
    /\ visited' = {}
    /\ graph' = EmptyGraph
    /\ current_state' = <<>>
    /\ popped' = <<>>
    /\ idx' = 0
    /\ all_states' = <<>>
    /\ max_states' = 0

BuilderIdle ==
    /\ pc = "idle"
    /\ NoLocals
    /\ graphA = EmptyGraph
    /\ graphB = EmptyGraph
    /\ ret = NoReturn

\* ---- build_reachable_graph ----

CallReachable ==
    /\ pc = "idle"
    /\ pc' = "r_while"
    /\ queue' = <<problem.initial_state>>
    /\ visited' = {problem.initial_state}
    /\ graph' = add_node(EmptyGraph, problem.initial_state)
    /\ ret' = NoReturn
    /\ UNCHANGED <<problem, current_state, popped, idx, all_states, max_states,
                   graphA, graphB>>

\* a bug the loop could have: queue[0] read in place of queue.popleft(), so
\* that the state stays at the head of the frontier
ReachableExpandPeek ==
    /\ pc = "r_while"
    /\ queue # <<>>
    /\ LET st == ReachableOps(problem.operators, 1, Head(queue),
                              <<graph, visited, queue>>)
       IN  /\ current_state' = Head(queue)
           /\ graph' = st[1]
           /\ visited' = st[2]
           /\ queue' = st[3]
    /\ UNCHANGED <<problem, pc, popped, idx, all_states, max_states,
                   graphA, graphB, ret>>

\* one iteration of "while queue": popleft, then every operator in order
ReachableExpand ==
    /\ pc = "r_while"
    /\ queue # <<>>
    /\ LET st == ReachableOps(problem.operators, 1, Head(queue),
                              <<graph, visited, Tail(queue)>>)
       IN  /\ current_state' = Head(queue)
           /\ popped' = Append(popped, Head(queue))
           /\ graph' = st[1]
           /\ visited' = st[2]
           /\ queue' = st[3]
    /\ UNCHANGED <<problem, pc, idx, all_states, max_states,
                   graphA, graphB, ret>>

ReachableReturn ==
    /\ pc = "r_while"
    /\ queue = <<>>
    /\ pc' = "idle"
    /\ graphA' = graph
    /\ ret' = [method |-> "reachable", arg |-> "none", raised |-> "none",
               graph |-> graph]
    /\ ClearLocals
    /\ UNCHANGED <<problem, graphB>>

\* ---- build_cartesian_graph ----

\* step 1: all_states = list(itertools.product(*var_ranges))
CallCartesian ==
    /\ pc = "idle"
    /\ \E m \in MaxStatesChoices : max_states' = m
    /\ pc' = "c_check"
    /\ graph' = EmptyGraph
    /\ all_states' = Product(problem.ranges)
    /\ ret' = NoReturn
    /\ UNCHANGED <<problem, queue, visited, current_state, popped, idx, graphA, graphB>>

\* if len(all_states) > max_states: the raise statement is reached
CartesianTooLarge ==
    /\ pc = "c_check"
    /\ Len(all_states) > max_states
    /\ pc' = "c_raise"
    /\ UNCHANGED <<problem, queue, visited, graph, current_state, popped, idx,
                   all_states, max_states, graphA, graphB, ret>>

\* raise MemoryError: the call ends, no graph is returned
CartesianRaise ==
    /\ pc = "c_raise"
    /\ pc' = "idle"
    /\ ret' = [method |-> "cartesian", arg |-> "none", raised |-> "MemoryError",
               graph |-> EmptyGraph]
    /\ ClearLocals
    /\ UNCHANGED <<problem, graphA, graphB>>

\* a bug step 2 could have: no node is added, so that only the endpoints of
\* edges become nodes
CartesianAddNodesNone ==
    /\ pc = "c_check"
    /\ ~(Len(all_states) > max_states)
    /\ pc' = "c_for"
    /\ idx' = 1
    /\ UNCHANGED <<problem, queue, visited, graph, current_state, popped, all_states,
                   max_states, graphA, graphB, ret>>

\* step 2: for state in all_states: graph.add_node(state)
CartesianAddNodes ==
    /\ pc = "c_check"
    /\ ~(Len(all_states) > max_states)
    /\ pc' = "c_for"
    /\ graph' = [graph EXCEPT !.nodes = @ \cup Range(all_states)]
    /\ idx' = 1
    /\ UNCHANGED <<problem, queue, visited, current_state, popped, all_states,
                   max_states, graphA, graphB, ret>>

\* step 3, one iteration of the outer loop: every operator against one state
CartesianState ==
    /\ pc = "c_for"
    /\ idx <= Len(all_states)
    /\ graph' = CartesianOps(problem.operators, 1, all_states[idx], graph)
    /\ idx' = idx + 1
    /\ UNCHANGED <<problem, pc, queue, visited, current_state, popped, all_states,
                   max_states, graphA, graphB, ret>>

CartesianReturn ==
    /\ pc = "c_for"
    /\ idx > Len(all_states)
    /\ pc' = "idle"
    /\ graphB' = graph
    /\ ret' = [method |-> "cartesian", arg |-> "none", raised |-> "none",
               graph |-> graph]
    /\ ClearLocals
    /\ UNCHANGED <<problem, graphA>>

\* ---- get_main_component ----

\* nx.DiGraph.remove_node: the node goes, and every edge at it
remove_node(g, n) ==
    [nodes |-> g.nodes \ {n},
     edges |-> [e \in {d \in DOMAIN g.edges : d[1] # n /\ d[2] # n} |-> g.edges[e]]]

\* the graphs a caller has at hand: those the builder returned, the Cartesian
\* graph with the initial state taken out, and an empty one
GraphArg(which) ==
    IF which = "A" THEN graphA
    ELSE IF which = "B" THEN graphB
    ELSE IF which = "B_cut" THEN remove_node(graphB, problem.initial_state)
    ELSE EmptyGraph

ArgChoices ==
    {"empty"} \cup (IF graphA # EmptyGraph THEN {"A"} ELSE {})
              \cup (IF graphB # EmptyGraph THEN {"B", "B_cut"} ELSE {})

\* a bug get_main_component could have: the membership test left out, so
\* that no component is found and the final "return nx.DiGraph()" is reached
get_main_component_unguarded(g, initial_state) ==
    IF initial_state \notin g.nodes
    THEN [raised |-> "none", graph |-> EmptyGraph]
    ELSE LET component == CHOOSE c \in weakly_connected_components(g) :
                              initial_state \in c
         IN  [raised |-> "none", graph |-> subgraph(g, component)]

\* a bug get_main_component could have: the first component is returned
\* without asking whether the initial state is in it
get_main_component_first(g, initial_state) ==
    IF initial_state \notin g.nodes
    THEN [raised |-> "ValueError", graph |-> EmptyGraph]
    ELSE LET component == CHOOSE c \in weakly_connected_components(g) : TRUE
         IN  [raised |-> "none", graph |-> subgraph(g, component)]

get_main_component(g, initial_state) ==
    IF initial_state \notin g.nodes
    THEN [raised |-> "ValueError", graph |-> EmptyGraph]
    ELSE LET component == CHOOSE c \in weakly_connected_components(g) :
                              initial_state \in c
         IN  [raised |-> "none", graph |-> subgraph(g, component)]

CallMainComponent ==
    /\ pc = "idle"
    /\ \E which \in ArgChoices :
         LET r == get_main_component(GraphArg(which), problem.initial_state)
         IN  ret' = [method |-> "component", arg |-> which, raised |-> r.raised,
                     graph |-> r.graph]
    /\ UNCHANGED <<problem, pc, queue, visited, graph, current_state, popped, idx,
                   all_states, max_states, graphA, graphB>>

BuilderNext ==
    \/ CallReachable
    \/ ReachableExpand
    \/ ReachableReturn
    \/ CallCartesian
    \/ CartesianTooLarge
    \/ CartesianRaise
    \/ CartesianAddNodes
    \/ CartesianState
    \/ CartesianReturn
    \/ CallMainComponent

-----------------------------------------------------------------------------
(* SASOperator called on its own: is_applicable, then apply, on one state *)

\* domain sizes of the variables the operators are over
ModelRanges == <<2, 2>>

\* the condition lists of an effect: none, one pair, or one pair per variable
GuardChoices ==
    {<<>>, << <<0, 0>> >>, << <<0, 1>> >>, << <<1, 1>> >>, << <<0, 1>>, <<1, 1>> >>}

EffectChoices ==
    {<<e[1], e[2], g>> : e \in Pairs(ModelRanges), g \in GuardChoices}

\* is_applicable reads the preconditions only and apply the effects only: the
\* operators have up to two preconditions and no effect, or no precondition
\* and up to MaxEffects effects
ModelOps ==
    {[name |-> "op", cost |-> 1, preconditions |-> pre, effects |-> <<>>] :
        pre \in SeqsUpTo(Pairs(ModelRanges), 2)}
    \cup {[name |-> "op", cost |-> 1, preconditions |-> <<>>, effects |-> effs] :
        effs \in SeqsUpTo(EffectChoices, MaxEffects)}

ModelIsApplicable ==
    /\ m_pc = "start"
    /\ m_applicable' = is_applicable(m_op, m_state)
    /\ m_pc' = "tested"
    /\ UNCHANGED <<m_op, m_state, m_next>>

ModelApply ==
    /\ m_pc = "tested"
    /\ m_next' = apply(m_op, m_state)
    /\ m_pc' = "applied"
    /\ UNCHANGED <<m_op, m_state, m_applicable>>

ModelsNext == ModelIsApplicable \/ ModelApply

BuilderOff ==
    /\ problem = [ranges |-> <<>>, initial_state |-> <<>>, operators |-> <<>>]
    /\ pc = "off"
    /\ NoLocals
    /\ graphA = EmptyGraph
    /\ graphB = EmptyGraph
    /\ ret = NoReturn

-----------------------------------------------------------------------------
(* SASParser: src/src/parser/core.py                                         *)
(*                                                                           *)
(* A line is the sequence of its whitespace-separated tokens, each a string: *)
(* line.strip() is the line, line.split() its tokens, and int() succeeds on  *)
(* a line or token that is one integer literal.  A sub-parser returns        *)
(* [status, pos, value, msg]: status is "ok" or the exception raised, pos    *)
(* the number of lines consumed so far, msg what the exception's message     *)
(* holds.                                                                    *)

IntLiterals == {ToString(n) : n \in DontCare..9}

\* int(x) of one token
IsInt(tok) == tok \in IntLiterals
IntOf(tok) == CHOOSE n \in DontCare..9 : ToString(n) = tok

\* int(x) of a whole line: one integer literal, whitespace around it allowed
IsIntLine(line) == Len(line) = 1 /\ IsInt(line[1])
IntOfLine(line) == IntOf(line[1])

Ok(pos, value) == [status |-> "ok", pos |-> pos, value |-> value, msg |-> <<>>]
Raised(exc, pos, msg) == [status |-> exc, pos |-> pos, value |-> <<>>, msg |-> msg]
\* next(self.lines) on the exhausted iterator
StopIteration(lines) == Raised("StopIteration", Len(lines), <<>>)
\* int() of something that is no integer literal
NotAnInt(pos, text) == Raised("ValueError", pos, <<"invalid literal for int()">> \o text)

\* line[i] of Python: a negative i counts from the end
InRange(line, i) == IF i >= 0 THEN i < Len(line) ELSE -i <= Len(line)
At(line, i) == IF i >= 0 THEN line[i + 1] ELSE line[Len(line) + i + 1]

\* int(line[i]) for the indexes idxs in turn: the integers, or the first
\* exception
RECURSIVE IntsAt(_, _, _, _, _)
IntsAt(line, idxs, k, pos, acc) ==
    IF k > Len(idxs) THEN Ok(pos, acc)
    ELSE IF ~InRange(line, idxs[k])
    THEN Raised("IndexError", pos, <<"list index out of range">>)
    ELSE IF ~IsInt(At(line, idxs[k]))
    THEN NotAnInt(pos, <<At(line, idxs[k])>>)
    ELSE IntsAt(line, idxs, k + 1, pos, Append(acc, IntOf(At(line, idxs[k]))))

\* _parse_variable, the iterator having yielded pos lines
_parse_variable(lines, pos, var_id) ==
    IF pos + 3 > Len(lines) THEN StopIteration(lines)
    ELSE IF ~IsIntLine(lines[pos + 3]) THEN NotAnInt(pos + 3, lines[pos + 3])
    ELSE LET range_size == IntOfLine(lines[pos + 3])
             n == IF range_size > 0 THEN range_size ELSE 0
         IN  IF pos + 3 + n + 1 > Len(lines) THEN StopIteration(lines)
             ELSE Ok(pos + 3 + n + 1,
                     [name |-> lines[pos + 1], var_id |-> var_id,
                      range_size |-> range_size,
                      atom_names |-> SubSeq(lines, pos + 4, pos + 3 + n)])

\* a bug _parse_state could have: the line after the values read and dropped,
\* as the other sub-parsers do with their closing line
RECURSIVE StateLoopUnchecked(_, _, _, _)
StateLoopUnchecked(lines, pos, left, state) ==
    IF left > 0
    THEN IF pos + 1 > Len(lines) THEN StopIteration(lines)
         ELSE IF ~IsIntLine(lines[pos + 1]) THEN NotAnInt(pos + 1, lines[pos + 1])
         ELSE StateLoopUnchecked(lines, pos + 1, left - 1,
                                 Append(state, IntOfLine(lines[pos + 1])))
    ELSE IF pos + 1 > Len(lines) THEN StopIteration(lines)
    ELSE Ok(pos + 1, state)

\* _parse_state: variable_count values, then the line that must be end_state
RECURSIVE StateLoop(_, _, _, _)
StateLoop(lines, pos, left, state) ==
    IF left > 0
    THEN IF pos + 1 > Len(lines) THEN StopIteration(lines)
         ELSE IF ~IsIntLine(lines[pos + 1]) THEN NotAnInt(pos + 1, lines[pos + 1])
         ELSE StateLoop(lines, pos + 1, left - 1,
                        Append(state, IntOfLine(lines[pos + 1])))
    ELSE IF pos + 1 > Len(lines) THEN StopIteration(lines)
    ELSE LET check_tag == lines[pos + 1]
         IN  IF check_tag # <<"end_state">>
             THEN Raised("ValueError", pos + 1,
                         <<"Error parsing state: Expected 'end_state' but found">>
                             \o check_tag)
             ELSE Ok(pos + 1, state)

_parse_state(lines, pos, variable_count) == StateLoop(lines, pos, variable_count, <<>>)

\* the loops of _parse_goal and of the prevail conditions: left lines, of each
\* the pair (int(line[0]), int(line[1]))
RECURSIVE PairLoop(_, _, _, _)
PairLoop(lines, pos, left, pairs) ==
    IF left <= 0 THEN Ok(pos, pairs)
    ELSE IF pos + 1 > Len(lines) THEN StopIteration(lines)
    ELSE LET r == IntsAt(lines[pos + 1], <<0, 1>>, 1, pos + 1, <<>>)
         IN  IF r.status # "ok" THEN r
             ELSE PairLoop(lines, pos + 1, left - 1, Append(pairs, r.value))

_parse_goal(lines, pos) ==
    IF pos + 1 > Len(lines) THEN StopIteration(lines)
    ELSE IF ~IsIntLine(lines[pos + 1]) THEN NotAnInt(pos + 1, lines[pos + 1])
    ELSE LET r == PairLoop(lines, pos + 1, IntOfLine(lines[pos + 1]), <<>>)
         IN  IF r.status # "ok" THEN r
             ELSE IF r.pos + 1 > Len(lines) THEN StopIteration(lines)
             ELSE Ok(r.pos + 1, r.value)

\* the indexes an effect line is read at, after its condition count
\* cond_count: the condition pairs, then the triplet at base_idx
EffectIndexes(cond_count) ==
    LET base_idx == 1 + 2 * cond_count
        n == IF cond_count > 0 THEN cond_count ELSE 0
    IN  [k \in 1..(2 * n) |-> k] \o <<base_idx, base_idx + 1, base_idx + 2>>

\* the condition pairs among the integers read at EffectIndexes
ConditionsOf(ints) ==
    [i \in 1..((Len(ints) - 3) \div 2) |-> <<ints[2 * i - 1], ints[2 * i]>>]

\* a bug the effect loop could have: the pre-value made a precondition even
\* when it is the don't-care value
RECURSIVE EffectLinesLoopAlways(_, _, _, _, _)
EffectLinesLoopAlways(lines, pos, left, preconditions, effects) ==
    IF left <= 0 THEN Ok(pos, <<preconditions, effects>>)
    ELSE IF pos + 1 > Len(lines) THEN StopIteration(lines)
    ELSE LET line == lines[pos + 1]
             c == IntsAt(line, <<0>>, 1, pos + 1, <<>>)
         IN  IF c.status # "ok" THEN c
             ELSE LET r == IntsAt(line, EffectIndexes(c.value[1]), 1, pos + 1, <<>>)
                  IN  IF r.status # "ok" THEN r
                      ELSE LET m == Len(r.value)
                           IN  EffectLinesLoopAlways(lines, pos + 1, left - 1,
                                   Append(preconditions, <<r.value[m - 2], r.value[m - 1]>>),
                                   Append(effects, <<r.value[m - 2], r.value[m],
                                                     ConditionsOf(r.value)>>))

\* a bug the effect loop could have: the effect recorded as the pair
\* (var_id, post_val), its conditions dropped
RECURSIVE EffectLinesLoopPairs(_, _, _, _, _)
EffectLinesLoopPairs(lines, pos, left, preconditions, effects) ==
    IF left <= 0 THEN Ok(pos, <<preconditions, effects>>)
    ELSE IF pos + 1 > Len(lines) THEN StopIteration(lines)
    ELSE LET line == lines[pos + 1]
             c == IntsAt(line, <<0>>, 1, pos + 1, <<>>)
         IN  IF c.status # "ok" THEN c
             ELSE LET r == IntsAt(line, EffectIndexes(c.value[1]), 1, pos + 1, <<>>)
                  IN  IF r.status # "ok" THEN r
                      ELSE LET m == Len(r.value)
                               var_id == r.value[m - 2]
                               pre_val == r.value[m - 1]
                               post_val == r.value[m]
                           IN  EffectLinesLoopPairs(lines, pos + 1, left - 1,
                                   IF pre_val # DontCare
                                   THEN Append(preconditions, <<var_id, pre_val>>)
                                   ELSE preconditions,
                                   Append(effects, <<var_id, post_val>>))

\* the effect loop of _parse_operator: left effect lines, each adding an
\* effect (var_id, post_val, effect_conditions) and, unless pre_val is -1, the
\* precondition (var_id, pre_val)
RECURSIVE EffectLinesLoop(_, _, _, _, _)
EffectLinesLoop(lines, pos, left, preconditions, effects) ==
    IF left <= 0 THEN Ok(pos, <<preconditions, effects>>)
    ELSE IF pos + 1 > Len(lines) THEN StopIteration(lines)
    ELSE LET line == lines[pos + 1]
             c == IntsAt(line, <<0>>, 1, pos + 1, <<>>)
         IN  IF c.status # "ok" THEN c
             ELSE LET r == IntsAt(line, EffectIndexes(c.value[1]), 1, pos + 1, <<>>)
                  IN  IF r.status # "ok" THEN r
                      ELSE LET m == Len(r.value)
                               var_id == r.value[m - 2]
                               pre_val == r.value[m - 1]
                               post_val == r.value[m]
                           IN  EffectLinesLoop(lines, pos + 1, left - 1,
                                   IF pre_val # DontCare
                                   THEN Append(preconditions, <<var_id, pre_val>>)
                                   ELSE preconditions,
                                   Append(effects, <<var_id, post_val,
                                                     ConditionsOf(r.value)>>))

_parse_operator(lines, pos) ==
    IF pos + 2 > Len(lines) THEN StopIteration(lines)
    ELSE IF ~IsIntLine(lines[pos + 2]) THEN NotAnInt(pos + 2, lines[pos + 2])
    ELSE LET pv == PairLoop(lines, pos + 2, IntOfLine(lines[pos + 2]), <<>>)
         IN  IF pv.status # "ok" THEN pv
             ELSE IF pv.pos + 1 > Len(lines) THEN StopIteration(lines)
             ELSE IF ~IsIntLine(lines[pv.pos + 1])
             THEN NotAnInt(pv.pos + 1, lines[pv.pos + 1])
             ELSE LET ef == EffectLinesLoop(lines, pv.pos + 1,
                                            IntOfLine(lines[pv.pos + 1]), pv.value, <<>>)
                  IN  IF ef.status # "ok" THEN ef
                      ELSE IF ef.pos + 1 > Len(lines) THEN StopIteration(lines)
                      ELSE IF ~IsIntLine(lines[ef.pos + 1])
                      THEN NotAnInt(ef.pos + 1, lines[ef.pos + 1])
                      ELSE IF ef.pos + 2 > Len(lines) THEN StopIteration(lines)
                      ELSE Ok(ef.pos + 2,
                              [name |-> lines[pos + 1],
                               cost |-> IntOfLine(lines[ef.pos + 1]),
                               preconditions |-> ef.value[1],
                               effects |-> ef.value[2]])

\* version = int(next(self.lines)) and metric = bool(int(next(self.lines)))
IntSection(lines, pos) ==
    IF pos + 1 > Len(lines) THEN StopIteration(lines)
    ELSE IF ~IsIntLine(lines[pos + 1]) THEN NotAnInt(pos + 1, lines[pos + 1])
    ELSE Ok(pos + 1, IntOfLine(lines[pos + 1]))

Markers == {"begin_version", "begin_metric", "begin_variable", "begin_state",
            "begin_goal", "begin_operator"}

\* the section a line opens, "" for a line parse passes over
MarkerOf(line) == IF Len(line) = 1 /\ line[1] \in Markers THEN line[1] ELSE ""

\* the placeholders parse starts from
Placeholders ==
    [version |-> 3, metric |-> TRUE, variables |-> <<>>, initial_state |-> <<>>,
     goal |-> <<>>, operators |-> <<>>]

\* what one iteration of the loop of parse does with what its sub-parser
\* returned or raised: go on; on StopIteration, break and return the
\* SASProblem of what was parsed so far; on another exception, leave parse
\* with it
Dispatched(marker, r, update) ==
    /\ p_sect' = [marker |-> marker, start |-> p_pos + 1,
                  stopped |-> (r.status = "StopIteration")]
    /\ p_pos' = r.pos
    /\ p_msg' = r.msg
    /\ p_status' = IF r.status = "ok" THEN "running"
                   ELSE IF r.status = "StopIteration" THEN "returned"
                   ELSE r.status
    /\ p_problem' = IF r.status = "ok" THEN update ELSE p_problem
    /\ UNCHANGED p_lines

Next_line == p_lines[p_pos + 1]

AtMarker(marker) ==
    /\ p_status = "running"
    /\ p_pos < Len(p_lines)
    /\ MarkerOf(Next_line) = marker

ParseVersion ==
    /\ AtMarker("begin_version")
    /\ LET r == IntSection(p_lines, p_pos + 1)
       IN  Dispatched("begin_version", r, [p_problem EXCEPT !.version = r.value])

ParseMetric ==
    /\ AtMarker("begin_metric")
    /\ LET r == IntSection(p_lines, p_pos + 1)
       IN  Dispatched("begin_metric", r, [p_problem EXCEPT !.metric = (r.value # 0)])

ParseVariable ==
    /\ AtMarker("begin_variable")
    /\ LET r == _parse_variable(p_lines, p_pos + 1, Len(p_problem.variables))
       IN  Dispatched("begin_variable", r,
                      [p_problem EXCEPT !.variables = Append(@, r.value)])

ParseState ==
    /\ AtMarker("begin_state")
    /\ LET r == _parse_state(p_lines, p_pos + 1, Len(p_problem.variables))
       IN  Dispatched("begin_state", r, [p_problem EXCEPT !.initial_state = r.value])

ParseGoal ==
    /\ AtMarker("begin_goal")
    /\ LET r == _parse_goal(p_lines, p_pos + 1)
       IN  Dispatched("begin_goal", r, [p_problem EXCEPT !.goal = r.value])

ParseOperator ==
    /\ AtMarker("begin_operator")
    /\ LET r == _parse_operator(p_lines, p_pos + 1)
       IN  Dispatched("begin_operator", r,
                      [p_problem EXCEPT !.operators = Append(@, r.value)])

\* a line that opens no section is passed over
ParseSkip ==
    /\ AtMarker("")
    /\ p_pos' = p_pos + 1
    /\ UNCHANGED <<p_lines, p_problem, p_status, p_msg, p_sect>>

\* next(self.lines) at the head of the loop raises StopIteration: break, and
\* return the SASProblem
ParseEnd ==
    /\ p_status = "running"
    /\ p_pos >= Len(p_lines)
    /\ p_status' = "returned"
    /\ UNCHANGED <<p_lines, p_pos, p_problem, p_msg, p_sect>>

ParserNext ==
    \/ ParseVersion
    \/ ParseMetric
    \/ ParseVariable
    \/ ParseState
    \/ ParseGoal
    \/ ParseOperator
    \/ ParseSkip
    \/ ParseEnd

\* ---- the texts given to parse ----

\* the sections before the operators: version, metric, two variables of two
\* values, the initial state and the goal
Preamble ==
    << <<"begin_version">>, <<"3">>, <<"end_version">>,
       <<"begin_metric">>, <<"1">>, <<"end_metric">>,
       <<"begin_variable">>, <<"var0">>, <<"-1">>, <<"2">>,
       <<"Atom", "off">>, <<"Atom", "on">>, <<"end_variable">>,
       <<"begin_variable">>, <<"var1">>, <<"-1">>, <<"2">>,
       <<"Atom", "a">>, <<"Atom", "b">>, <<"end_variable">>,
       <<"begin_state">>, <<"0">>, <<"1">>, <<"end_state">>,
       <<"begin_goal">>, <<"1">>, <<"0", "1">>, <<"end_goal">> >>

\* prevail lines "var value" of an operator block
PrevailChoices == {<<>>, << <<"1", "0">> >>}

\* effect lines "guard_count [guard_var guard_val]* var pre post"
EffectLineChoices ==
    { <<"0", "0", "0", "1">>, <<"0", "0", "-1", "1">>, <<"0", "1", "1", "0">>,
      <<"1", "1", "1", "0", "-1", "1">>, <<"1", "0", "1", "1", "0", "1">> }

OperatorBlock(prevail, effect_lines) ==
    << <<"begin_operator">>, <<"turn_on">>, <<ToString(Len(prevail))>> >>
        \o prevail \o << <<ToString(Len(effect_lines))>> >> \o effect_lines
        \o << <<"1">>, <<"end_operator">> >>

OperatorBlocks ==
    {OperatorBlock(pv, ef) :
        pv \in PrevailChoices, ef \in SeqsUpTo(EffectLineChoices, MaxEffects)}

\* lines put in the place of a line: a word, a blank line, a pair
Replacements == {<<"junk">>, <<>>, <<"0", "1">>}

\* a text cut off after n lines, with line i replaced, or with line i left out
CutOff(text, n) == SubSeq(text, 1, n)
Replaced(text, i, line) == [text EXCEPT ![i] = line]
LeftOut(text, i) == SubSeq(text, 1, i - 1) \o SubSeq(text, i + 1, Len(text))

\* the text itself is CutOff(text, Len(text))
Damaged(text) ==
    {CutOff(text, n) : n \in 0..Len(text)}
        \cup {Replaced(text, i, l) : i \in 1..Len(text), l \in Replacements}
        \cup {LeftOut(text, i) : i \in 1..Len(text)}

\* the single-switch problem of the parser's test: one variable of two
\* values, initially 0, and the operator turn_on
SwitchSimple ==
    << <<"begin_version">>, <<"3">>, <<"end_version">>,
       <<"begin_metric">>, <<"1">>, <<"end_metric">>,
       <<"begin_variable">>, <<"var0">>, <<"-1">>, <<"2">>,
       <<"Atom", "light-is-off">>, <<"Atom", "light-is-on">>, <<"end_variable">>,
       <<"begin_state">>, <<"0">>, <<"end_state">>,
       <<"begin_goal">>, <<"1">>, <<"0", "1">>, <<"end_goal">>,
       <<"begin_operator">>, <<"turn_on">>, <<"0">>, <<"1">>,
       <<"0", "0", "0", "1">>, <<"1">>, <<"end_operator">> >>

\* every operator block, whole or damaged, after the whole preamble, the
\* damaged preamble before an operator block with one effect line, and the
\* single-switch problem
Contents ==
    {Preamble \o block : block \in UNION {Damaged(b) : b \in OperatorBlocks}}
        \cup {pre \o OperatorBlock(<<>>, << <<"0", "0", "0", "1">> >>) :
                pre \in Damaged(Preamble)}
        \cup {SwitchSimple}

\* content.strip().splitlines(): no blank line at either end
RECURSIVE splitlines_of_strip(_)
splitlines_of_strip(content) ==
    IF content = <<>> THEN <<>>
    ELSE IF Head(content) = <<>> THEN splitlines_of_strip(Tail(content))
    ELSE IF content[Len(content)] = <<>>
    THEN splitlines_of_strip(SubSeq(content, 1, Len(content) - 1))
    ELSE content

NoSection == [marker |-> "", start |-> 0, stopped |-> FALSE]

ParserOff ==
    /\ p_lines = <<>>
    /\ p_pos = 0
    /\ p_problem = Placeholders
    /\ p_status = "off"
    /\ p_msg = <<>>
    /\ p_sect = NoSection

ModelsOff ==
    /\ m_op = <<>>
    /\ m_state = <<>>
    /\ m_pc = "off"
    /\ m_applicable = FALSE
    /\ m_next = <<>>

Init ==
    /\ problem \in Problems
    /\ BuilderIdle
    /\ ParserOff
    /\ ModelsOff

Next == BuilderNext /\ UNCHANGED <<pvars, mvars>>

Spec == Init /\ [][Next]_vars

\* the builder on problems whose operators differ in cost
InitCosts ==
    /\ problem \in CostProblems
    /\ BuilderIdle
    /\ ParserOff
    /\ ModelsOff

SpecCosts == InitCosts /\ [][Next]_vars

\* one operator, tested and applied on one state
InitModels ==
    /\ m_op \in ModelOps
    /\ m_state \in Range(Product(ModelRanges))
    /\ m_pc = "start"
    /\ m_applicable = FALSE
    /\ m_next = <<>>
    /\ BuilderOff
    /\ ParserOff

NextModels == ModelsNext /\ UNCHANGED <<bvars, pvars>>

SpecModels == InitModels /\ [][NextModels]_vars

\* a caller that calls build_reachable_graph only
NextReachable ==
    /\ CallReachable \/ ReachableExpand \/ ReachableReturn
    /\ UNCHANGED <<pvars, mvars>>

\* a call of build_reachable_graph runs on: the interpreter takes the next
\* iteration of the loop, and the return once the loop has ended
SpecFair ==
    /\ Init
    /\ [][NextReachable]_vars
    /\ WF_vars(ReachableExpand /\ UNCHANGED <<pvars, mvars>>)
    /\ WF_vars(ReachableReturn /\ UNCHANGED <<pvars, mvars>>)

\* parse called on one text: self.lines is set, the loop is about to start
InitParser ==
    /\ \E content \in Contents : p_lines = splitlines_of_strip(content)
    /\ p_pos = 0
    /\ p_problem = Placeholders
    /\ p_status = "running"
    /\ p_msg = <<>>
    /\ p_sect = NoSection
    /\ BuilderOff
    /\ ModelsOff

NextParser == ParserNext /\ UNCHANGED <<bvars, mvars>>

SpecParser == InitParser /\ [][NextParser]_vars

-----------------------------------------------------------------------------
(* What the properties are stated with *)

Built(g) == g # EmptyGraph

Min(S) == CHOOSE x \in S : \A y \in S : x <= y

\* the product of the domain sizes
RECURSIVE ProductSize(_)
ProductSize(ranges) ==
    IF ranges = <<>> THEN 1 ELSE Head(ranges) * ProductSize(Tail(ranges))

\* the operators (by position) that are applicable in u and lead to v
Realizing(ops, u, v) ==
    {i \in 1..Len(ops) : is_applicable(ops[i], u) /\ apply(ops[i], u) = v}

\* the states obtainable from S by zero or more applications of applicable operators
RECURSIVE Obtainable(_, _)
Obtainable(ops, S) ==
    LET T == S \cup {v \in UNION {{apply(ops[i], u) : i \in 1..Len(ops)} : u \in S} :
                        \E u \in S : Realizing(ops, u, v) # {}}
    IN  IF T = S THEN S ELSE Obtainable(ops, T)

\* the nodes reached from S along directed edges of g
RECURSIVE Downstream(_, _)
Downstream(g, S) ==
    LET T == S \cup {n \in g.nodes : \E m \in S : has_edge(g, m, n)}
    IN  IF T = S THEN S ELSE Downstream(g, T)

\* every edge of g carries the least cost among the operators realizing it,
\* and the name of an operator of that cost
EdgesCheapest(g, ops) ==
    \A e \in DOMAIN g.edges :
        LET R == Realizing(ops, e[1], e[2])
        IN  /\ R # {}
            /\ g.edges[e].weight = Min({ops[i].cost : i \in R})
            /\ \E i \in R : /\ ops[i].cost = g.edges[e].weight
                             /\ ops[i].name = g.edges[e].label

\* the operators in another declaration order
Reordered(ops, f) == [i \in 1..Len(ops) |-> ops[f[i]]]

\* the edges out of the nodes of g, built anew from the operator list ops
RECURSIVE Rebuilt(_, _, _)
Rebuilt(ops, nodes, g) ==
    IF nodes = {} THEN g
    ELSE LET u == CHOOSE n \in nodes : TRUE
         IN  Rebuilt(ops, nodes \ {u}, CartesianOps(ops, 1, u, g))

\* g has the edges and weights that every other declaration order gives, and
\* that order's labels, too, name operators of least cost
SameInEveryOrder(g, ops, sources) ==
    \A f \in Permutations(1..Len(ops)) :
        LET h == Rebuilt(Reordered(ops, f), sources, EmptyGraph)
        IN  /\ DOMAIN h.edges = DOMAIN g.edges
            /\ \A e \in DOMAIN g.edges : h.edges[e].weight = g.edges[e].weight
            /\ EdgesCheapest(h, ops)

OutOfMainComponent ==
    /\ ret.method = "component"
    /\ ret.raised = "none"

-----------------------------------------------------------------------------
(* Properties of the builder *)

C2_EdgesCheapestInEveryOrder ==
    /\ Built(graphA) => /\ EdgesCheapest(graphA, problem.operators)
                        /\ SameInEveryOrder(graphA, problem.operators, graphA.nodes)
    /\ Built(graphB) => /\ EdgesCheapest(graphB, problem.operators)
                        /\ SameInEveryOrder(graphB, problem.operators, graphB.nodes)

\* two operators of different cost for one transition, the dearer declared
\* first in one problem and last in another; here the dearer is first
C2_Witness ==
    /\ Built(graphA) /\ Built(graphB)
    /\ \E e \in DOMAIN graphA.edges :
         LET R == Realizing(problem.operators, e[1], e[2])
         IN  /\ \E i, j \in R : i < j /\ problem.operators[i].cost > problem.operators[j].cost
             /\ graphA.edges[e].label = "op2"
             /\ graphB.edges[e].weight = 3

\* C3 as stated: when build_cartesian_graph raises, nothing that holds all
\* product states has been built.
C3_NothingMaterializedAtRaise ==
    pc = "c_raise" => all_states = <<>>

\* C5: the Cartesian graph has as many nodes as the product of the domain sizes.
C5_CartesianNodeCount ==
    Built(graphB) => Cardinality(graphB.nodes) = ProductSize(problem.ranges)

\* a Cartesian graph with edges, and with a state that no edge touches
C5_Witness ==
    /\ Built(graphB)
    /\ DOMAIN graphB.edges # {}
    /\ \E n \in graphB.nodes : \A e \in DOMAIN graphB.edges : e[1] # n /\ e[2] # n

\* C6: the reachability graph's nodes are the states obtainable from the
\* initial state, the initial state among them, each reached from it along
\* edges of the graph.
C6_ReachableNodesExact ==
    Built(graphA) =>
        /\ problem.initial_state \in graphA.nodes
        /\ graphA.nodes = Obtainable(problem.operators, {problem.initial_state})
        /\ graphA.nodes = Downstream(graphA, {problem.initial_state})

\* a reachability graph of three states, one state of the product not among them
C6_Witness ==
    /\ Built(graphA)
    /\ Cardinality(graphA.nodes) = 3
    /\ ProductSize(problem.ranges) = 4

\* C8: every node of the reachability graph is a node of the Cartesian graph.
C8_ReachableWithinCartesian ==
    (Built(graphA) /\ Built(graphB)) => graphA.nodes \subseteq graphB.nodes

\* both graphs built, the reachability graph of several states and smaller
C8_Witness ==
    /\ Built(graphA) /\ Built(graphB)
    /\ Cardinality(graphA.nodes) >= 2
    /\ graphA.nodes # graphB.nodes

-----------------------------------------------------------------------------
(* Properties of the operators *)

\* the effects (by position) of op that write variable index v and whose
\* conditions all hold in state
Firing(op, state, v) ==
    {i \in 1..Len(op.effects) :
        /\ op.effects[i][1] + 1 = v
        /\ \A c \in Range(op.effects[i][3]) : state[c[1] + 1] = c[2]}

\* C7: apply gives a variable the new value of an effect on it whose
\* conditions all hold in the state passed in, and leaves a variable with no
\* such effect at its value in that state.
C7_EffectsFireOnStatePassedIn ==
    m_pc = "applied" =>
        /\ Len(m_next) = Len(m_state)
        /\ \A v \in 1..Len(m_state) :
             IF Firing(m_op, m_state, v) = {}
             THEN m_next[v] = m_state[v]
             ELSE m_next[v] \in {m_op.effects[i][2] : i \in Firing(m_op, m_state, v)}

\* an unguarded effect has fired and changed its variable, and a later
\* effect whose condition holds only in the updated state has not fired
C7_Witness ==
    /\ m_pc = "applied"
    /\ Len(m_op.effects) = 2
    /\ m_op.effects[1][3] = <<>>
    /\ m_op.effects[2][3] = << <<m_op.effects[1][1], m_op.effects[1][2]>> >>
    /\ m_op.effects[2][1] # m_op.effects[1][1]
    /\ m_state[m_op.effects[1][1] + 1] # m_op.effects[1][2]
    /\ m_state[m_op.effects[2][1] + 1] # m_op.effects[2][2]
    /\ m_next[m_op.effects[1][1] + 1] = m_op.effects[1][2]
    /\ m_next[m_op.effects[2][1] + 1] = m_state[m_op.effects[2][1] + 1]

-----------------------------------------------------------------------------
(* Properties of the parser *)

\* C4 as stated: parse returns no SASProblem when the input ended inside the
\* section it was in.
C4_NoProblemFromTruncatedSection ==
    p_status = "returned" => ~p_sect.stopped

\* the state block the last iteration went into, as the text has it: a line
\* for each variable, each an integer, and a line after them
StateBlockRead ==
    /\ p_sect.marker = "begin_state"
    /\ p_sect.start + Len(p_problem.variables) + 1 <= Len(p_lines)
    /\ \A i \in 1..Len(p_problem.variables) : IsIntLine(p_lines[p_sect.start + i])

LineAfterStateValues == p_lines[p_sect.start + Len(p_problem.variables) + 1]

\* C9: a state block whose values are followed by a line other than end_state
\* makes parse raise ValueError, the message holding that line; nothing is
\* returned.
C9_WrongStateTerminatorRaises ==
    (StateBlockRead /\ LineAfterStateValues # <<"end_state">>) =>
        /\ p_status = "ValueError"
        /\ p_msg = <<"Error parsing state: Expected 'end_state' but found">>
                       \o LineAfterStateValues
        /\ p_problem.initial_state = <<>>

\* the values of both variables read, end_state left out: the message names
\* begin_goal
C9_Witness ==
    /\ StateBlockRead
    /\ Len(p_problem.variables) = 2
    /\ LineAfterStateValues = <<"begin_goal">>
    /\ p_status = "ValueError"

\* the operator block the last iteration parsed, as the text has it
BlockPrevailCount == IntOfLine(p_lines[p_sect.start + 2])
BlockPrevail(i) == p_lines[p_sect.start + 2 + i]
BlockEffectCount == IntOfLine(p_lines[p_sect.start + 3 + BlockPrevailCount])
BlockEffect(i) == p_lines[p_sect.start + 3 + BlockPrevailCount + i]
\* var and pre of the triplet that ends an effect line
EffectVar(line) == IntOf(line[Len(line) - 2])
EffectPre(line) == IntOf(line[Len(line) - 1])

ExplicitPrevail ==
    [i \in 1..BlockPrevailCount |-> <<IntOf(BlockPrevail(i)[1]), IntOf(BlockPrevail(i)[2])>>]

EffectPreValues ==
    LET withPre == SelectSeq([i \in 1..BlockEffectCount |-> BlockEffect(i)],
                             LAMBDA line : EffectPre(line) # DontCare)
    IN  [i \in 1..Len(withPre) |-> <<EffectVar(withPre[i]), EffectPre(withPre[i])>>]

OperatorParsed ==
    /\ p_sect.marker = "begin_operator"
    /\ p_status \in {"running", "returned"}
    /\ ~p_sect.stopped

LastOperator == p_problem.operators[Len(p_problem.operators)]

\* the states over the variables parsed that hold every variable the block
\* names in a prevail line or an effect line
ParsedStates ==
    {state \in Range(Product([i \in 1..Len(p_problem.variables) |->
                                 p_problem.variables[i].range_size])) :
        \A q \in Range(ExplicitPrevail) \cup Range(EffectPreValues) :
            q[1] + 1 \in DOMAIN state}

\* C10: the preconditions of a parsed operator are its prevail pairs, then
\* (var, pre) of each effect line whose pre is not -1; the operator is
\* applicable in the states where all of them hold.
C10_PreconditionsFromPrevailAndPre ==
    OperatorParsed =>
        /\ LastOperator.preconditions = ExplicitPrevail \o EffectPreValues
        /\ \A state \in ParsedStates :
              is_applicable(LastOperator, state) <=>
                  \A q \in Range(ExplicitPrevail) \cup Range(EffectPreValues) :
                      state[q[1] + 1] = q[2]

\* an operator with a prevail pair, an effect line with pre-value -1 and one
\* with another pre-value: two preconditions
C10_Witness ==
    /\ OperatorParsed
    /\ BlockPrevailCount = 1
    /\ BlockEffectCount = 2
    /\ EffectPre(BlockEffect(1)) = DontCare
    /\ EffectPre(BlockEffect(2)) # DontCare
    /\ Len(LastOperator.preconditions) = 2
    /\ \E state \in ParsedStates : is_applicable(LastOperator, state)

-----------------------------------------------------------------------------
(* get_main_component: the initial state absent from the graph *)

\* C11: get_main_component raises ValueError and returns no graph when the
\* graph given does not hold the initial state, and does not raise when the
\* graph holds it: it then returns a graph holding the initial state.
C11_RaisesIffInitialStateAbsent ==
    ret.method = "component" =>
        IF problem.initial_state \in GraphArg(ret.arg).nodes
        THEN ret.raised = "none" /\ problem.initial_state \in ret.graph.nodes
        ELSE ret.raised = "ValueError" /\ ret.graph = EmptyGraph

\* called with a graph that has nodes and edges, the initial state not among
\* the nodes
C11_Witness ==
    /\ ret.method = "component"
    /\ ret.raised = "ValueError"
    /\ GraphArg(ret.arg).nodes # {}
    /\ DOMAIN GraphArg(ret.arg).edges # {}

-----------------------------------------------------------------------------
(* build_reachable_graph: termination *)

\* C12: every call of build_reachable_graph ends: the frontier becomes empty
\* and a graph is returned.
C12_ReachableTerminates ==
    (pc = "r_while") ~> (pc = "idle" /\ queue = <<>> /\ ret.method = "reachable"
                            /\ ret.raised = "none")

\* a call has returned a graph with a cycle of two states in it
C12_Witness ==
    /\ ret.method = "reachable"
    /\ \E e \in DOMAIN ret.graph.edges :
          e[1] # e[2] /\ <<e[2], e[1]>> \in DOMAIN ret.graph.edges

-----------------------------------------------------------------------------
(* The parsed effects of the single-switch problem *)

SwitchParsed ==
    /\ p_lines = SwitchSimple
    /\ p_status = "returned"
    /\ Len(p_problem.operators) = 1
    /\ p_problem.operators[1].name = <<"turn_on">>
    /\ p_problem.operators[1].cost = 1

-----------------------------------------------------------------------------
(* The label of an edge several operators of least cost compete for *)

\* the first operator in declaration order among those of least cost that
\* realize the edge e
FirstCheapest(ops, e) ==
    LET R == Realizing(ops, e[1], e[2])
        least == Min({ops[i].cost : i \in R})
    IN  Min({i \in R : ops[i].cost = least})

FirstMinimumWins(g, ops) ==
    \A e \in DOMAIN g.edges :
        /\ g.edges[e].label = ops[FirstCheapest(ops, e)].name
        /\ g.edges[e].weight = ops[FirstCheapest(ops, e)].cost

\* C14: in the graph under construction and in the graphs returned, every
\* edge carries the name and cost of the first operator processed among those
\* of least cost for it: a later operator of equal cost changes neither.
C14_FirstMinimumWins ==
    /\ FirstMinimumWins(graph, problem.operators)
    /\ FirstMinimumWins(graphA, problem.operators)
    /\ FirstMinimumWins(graphB, problem.operators)

\* an edge of both graphs that two operators of the same, least cost realize
C14_Witness ==
    /\ Built(graphA) /\ Built(graphB)
    /\ \E e \in DOMAIN graphA.edges :
         LET R == Realizing(problem.operators, e[1], e[2])
         IN  /\ \E i, j \in R : /\ i < j
                                /\ problem.operators[i].cost = problem.operators[j].cost
                                /\ problem.operators[i].cost = graphA.edges[e].weight
             /\ graphA.edges[e].label = "op1"
             /\ graphB.edges[e].label = "op1"

-----------------------------------------------------------------------------
(* apply and the order of the effects *)

\* what apply gives for op with its effects in every other order
SuccessorsInEveryOrder(op, state) ==
    {apply([op EXCEPT !.effects = Reordered(op.effects, f)], state) :
        f \in Permutations(1..Len(op.effects))}

\* no two effects that fire in state give one variable different values
NoConflictingWrites(op, state) ==
    \A v \in 1..Len(state) :
        Cardinality({op.effects[i][2] : i \in Firing(op, state, v)}) <= 1

\* C15 as stated: apply gives the same successor for every order of the
\* operator's effects.
C15_SameSuccessorInEveryOrder ==
    m_pc = "applied" => SuccessorsInEveryOrder(m_op, m_state) = {m_next}

\* C15, amended: apply gives the same successor for every order of the
\* effects when no two effects firing in the state write different values to
\* one variable.
C15_SameSuccessorUnlessConflict ==
    (m_pc = "applied" /\ NoConflictingWrites(m_op, m_state)) =>
        SuccessorsInEveryOrder(m_op, m_state) = {m_next}

\* two firing effects on different variables, both changing the state, the
\* second guarded by a value the first overwrites
C15_Witness ==
    /\ m_pc = "applied"
    /\ NoConflictingWrites(m_op, m_state)
    /\ Len(m_op.effects) = 2
    /\ m_op.effects[1][1] # m_op.effects[2][1]
    /\ m_op.effects[2][3] # <<>>
    /\ \A v \in 1..Len(m_state) : Firing(m_op, m_state, v) # {} /\ m_next[v] # m_state[v]
    /\ m_op.effects[2][3][1][1] = m_op.effects[1][1]

-----------------------------------------------------------------------------
(* build_reachable_graph: the frontier and the visited set *)

\* the states appended to the frontier so far, in order: a FIFO queue holds
\* what was appended and not yet popped, behind what was popped
Enqueued == popped \o queue

NoDuplicates(seq) == \A i, j \in 1..Len(seq) : seq[i] = seq[j] => i = j

\* C16: while build_reachable_graph runs, every state of the frontier is in
\* the visited set, no state has been enqueued twice and none popped twice;
\* the states enqueued are the visited ones.
C16_FrontierVisitedEnqueuedOnce ==
    pc = "r_while" =>
        /\ Range(queue) \subseteq visited
        /\ NoDuplicates(Enqueued)
        /\ NoDuplicates(popped)
        /\ Range(Enqueued) = visited

\* the loop has ended with four states popped, one of them the successor of
\* two other states
C16_Witness ==
    /\ pc = "r_while"
    /\ queue = <<>>
    /\ Len(popped) = 4
    /\ \E e, d \in DOMAIN graph.edges :
          e[2] = d[2] /\ e[1] # d[1] /\ e[1] # e[2] /\ d[1] # d[2]

=============================================================================
